---------------------------- MODULE Spec2Model ----------------------------
(***************************************************************************)
(* Model of the TES execution-and-accounting core:                         *)
(*   tes/execution/orders.py     Order, Trade, Position                    *)
(*   tes/execution/portfolio.py  Portfolio, PortfolioSnapshot              *)
(*   tes/execution/engine.py     ExecutionEngine                           *)
(*   tes/utils/performance.py    the performance analyzer                  *)
(*                                                                         *)
(* Numbers.  Every Python float is modelled as an exact rational           *)
(* [n |-> numerator, d |-> denominator] in lowest terms with d > 0, so      *)
(* the model is the code's arithmetic without rounding error.  Amounts     *)
(* (cash, quantity, fee, min_trade_value) are measured in units of the     *)
(* code's tolerance 1e-9, so the literal 1e-9 is the rational 1 (EPS);     *)
(* prices and percentages are plain ratios.  The code is homogeneous in    *)
(* the amounts, so this is a change of unit, not of behaviour.             *)
(*                                                                         *)
(* Rounding.  Spec and SpecEngine compute in exact arithmetic.  SpecFloat  *)
(* is the engine's BUY computed as floats compute it: every operation      *)
(* rounds its exact result to the nearest float, ties to even.  A Python   *)
(* float carries 53 significant bits, a float of SpecFloat FloatBits, so   *)
(* that neighbouring floats are more than the tolerance apart at amounts   *)
(* of 16 units and more, as neighbouring Python floats are more than 1e-9  *)
(* apart from 2^23 (about 8.4e6) on.                                       *)
(*                                                                         *)
(* Interpreter.  Trade.__post_init__ calls the zero-argument super() in a  *)
(* @dataclass(slots=True) class, which works from Python 3.14 on; on       *)
(* earlier interpreters every Trade(...) raises TypeError.  The model is   *)
(* of the code on an interpreter where Trade(...) can be constructed.      *)
(***************************************************************************)
EXTENDS Integers, Sequences, FiniteSets, TLC

VARIABLES
    driver,      \* which object the caller drives: "position", "portfolio", "engine",
                 \* "engine_float" (the engine in float arithmetic), or "metrics" for
                 \* the functions of performance.py
    position,    \* a stand-alone Position (orders.py), driven directly
    applied,     \* how many trades the stand-alone Position has applied
    portfolio,   \* the Portfolio (portfolio.py): cash, position, trade_history, snapshots, realised_pnl
    call,        \* the last call made on the object and how it ended
    engine,      \* the arguments of ExecutionEngine(...), which __init__ stores in the object
    candles,     \* run_backtest: the candle frame after sort_values("timestamp")
    signals,     \* run_backtest: rows of signal_df, in the strategy's order
    idx,         \* run_backtest: index of the candle the loop is at
    row,         \* run_backtest: next signal row to rebalance on within the bar
    trades,      \* run_backtest: the local list `trades`
    pc,          \* where the engine's caller is: "new", "ready", "loop", "done", "raised"
    error,       \* the class of the exception the engine's caller got, "" when none
    previous,    \* the results the engine's earlier run_backtest calls returned
    equity,      \* performance.py: the equity Series last given to the analyzer
                 \* (the trade list given to it is in `trades`)
    metrics      \* performance.py: what the analyzer returned for it

vars == <<driver, position, applied, portfolio, call, engine, candles, signals, idx, row, trades, pc, error,
          previous, equity, metrics>>

---------------------------------------------------------------------------
(* Bounds of the model *)

MaxTrades == 2
MaxSnaps == 2
MaxCandles == 2
MaxSignals == 2
MaxRuns == 2
MaxCurve == 4
MaxList == 3
\* significant bits of a float in SpecFloat
FloatBits == 4

---------------------------------------------------------------------------
(* Exact arithmetic standing for Python float +, -, *, /, comparisons *)

Abs(x) == IF x < 0 THEN -x ELSE x

RECURSIVE GCD(_, _)
GCD(a, b) == IF b = 0 THEN a ELSE GCD(b, a % b)

Rat(n, d) ==
    LET s == IF d < 0 THEN -1 ELSE 1
        g == GCD(Abs(n), Abs(d))
    IN  [n |-> (s * n) \div g, d |-> (s * d) \div g]

Num(k) == [n |-> k, d |-> 1]
Zero == Num(0)
One == Num(1)

\* float("nan"), the non-finite float of the model: it propagates through the
\* arithmetic and every comparison with it is false
NaN == [n |-> 0, d |-> 0]
isfinite(x) == x # NaN

Add(a, b) == IF a = NaN \/ b = NaN THEN NaN ELSE Rat(a.n * b.d + b.n * a.d, a.d * b.d)
Sub(a, b) == IF a = NaN \/ b = NaN THEN NaN ELSE Rat(a.n * b.d - b.n * a.d, a.d * b.d)
Mul(a, b) == IF a = NaN \/ b = NaN THEN NaN ELSE Rat(a.n * b.n, a.d * b.d)
Div(a, b) == IF a = NaN \/ b = NaN THEN NaN ELSE Rat(a.n * b.d, a.d * b.n)
Lt(a, b) == isfinite(a) /\ isfinite(b) /\ a.n * b.d < b.n * a.d
Le(a, b) == isfinite(a) /\ isfinite(b) /\ a.n * b.d <= b.n * a.d
Gt(a, b) == Lt(b, a)
Ge(a, b) == Le(b, a)
Neg(a) == [n |-> -a.n, d |-> a.d]
RAbs(a) == [n |-> Abs(a.n), d |-> a.d]

\* the sequences of at most n elements of S
SeqsUpTo(S, n) == UNION {[1..k -> S] : k \in 0..n}

\* The tolerance literal 1e-9 of orders.py and portfolio.py, in the model's unit.
EPS == Num(1)

---------------------------------------------------------------------------
(* orders.py: Order, Trade *)

BUY == "buy"
SELL == "sell"

\* Order.__post_init__ then Trade.__post_init__: "ok", or the ValueError raised
TradeError(t) ==
    IF ~isfinite(t.price) \/ Le(t.price, Zero)
    THEN "Order price must be a positive, finite number"
    ELSE IF ~isfinite(t.quantity) \/ Le(t.quantity, Zero)
    THEN "Order quantity must be a positive, finite number"
    ELSE IF ~isfinite(t.fee) \/ Lt(t.fee, Zero)
    THEN "Order fee must be a non-negative, finite number"
    ELSE IF ~isfinite(t.slippage) \/ Lt(t.slippage, Zero)
    THEN "Trade slippage must be a non-negative, finite number"
    ELSE "ok"

TradeValid(t) == TradeError(t) = "ok"

\* Trade.execution_price
execution_price(t) ==
    IF t.side = BUY
    THEN Mul(t.price, Add(One, t.slippage))
    ELSE Mul(t.price, Sub(One, t.slippage))

---------------------------------------------------------------------------
(* orders.py: Position *)

NewPosition == [quantity |-> Zero, average_price |-> Zero]

is_flat(pos) == pos.quantity = Zero

market_value(pos, mark_price) == Mul(pos.quantity, mark_price)

unrealised_pnl(pos, mark_price) ==
    IF is_flat(pos) THEN Zero
    ELSE Mul(Sub(mark_price, pos.average_price), pos.quantity)

\* The SELL guard of Position.apply_trade without its tolerance
ApplySellRaises_exact(pos, t) == Gt(t.quantity, pos.quantity)

\* The SELL guard of Position.apply_trade
ApplySellRaises(pos, t) == Gt(Sub(t.quantity, pos.quantity), EPS)

\* Position.apply_trade without the reset of a residual quantity <= 1e-9
apply_trade_no_snap(pos, t) ==
    IF t.side = BUY
    THEN LET q == Add(pos.quantity, t.quantity) IN
         [outcome |-> "ok",
          position |-> [quantity |-> q,
                        average_price |->
                            Div(Add(Mul(pos.average_price, pos.quantity),
                                    Add(Mul(execution_price(t), t.quantity), t.fee)), q)]]
    ELSE IF Gt(Sub(t.quantity, pos.quantity), EPS)
         THEN [outcome |-> "Cannot sell more than the current position quantity",
               position |-> pos]
         ELSE [outcome |-> "ok",
               position |-> [quantity |-> Sub(pos.quantity, t.quantity),
                             average_price |-> pos.average_price]]

\* Position.apply_trade resetting a residual quantity but not the average price
apply_trade_keeps_average(pos, t) ==
    LET r == apply_trade_no_snap(pos, t) IN
    IF r.outcome = "ok" /\ Le(r.position.quantity, EPS)
    THEN [r EXCEPT !.position.quantity = Zero]
    ELSE r

\* Outcome of a call: "ok", or the message of the ValueError it raised
OK == "ok"
Raised(r) == r.outcome # OK

\* an apply_trade whose BUY takes the latest unit cost as the average price
apply_trade_last_cost(pos, t) ==
    LET e == execution_price(t) IN
    IF t.side = BUY
    THEN [outcome |-> OK,
          position |-> [quantity |-> Add(pos.quantity, t.quantity),
                        average_price |-> Add(e, Div(t.fee, t.quantity))]]
    ELSE IF ApplySellRaises(pos, t)
         THEN [outcome |-> "Cannot sell more than the current position quantity",
               position |-> pos]
         ELSE LET q == Sub(pos.quantity, t.quantity) IN
              [outcome |-> OK,
               position |-> IF Le(q, EPS) THEN [quantity |-> Zero, average_price |-> Zero]
                            ELSE [quantity |-> q, average_price |-> pos.average_price]]

\* Position.apply_trade: [outcome, position]; a raise leaves the position as it was
apply_trade(pos, t) ==
    LET e == execution_price(t) IN
    IF t.side = BUY
    THEN LET unit_cost == Add(e, Div(t.fee, t.quantity))
             new_notional == Add(Mul(pos.average_price, pos.quantity),
                                 Mul(unit_cost, t.quantity))
             q == Add(pos.quantity, t.quantity)
         IN  [outcome |-> OK,
              position |-> [quantity |-> q,
                            average_price |-> IF q # Zero THEN Div(new_notional, q)
                                              ELSE pos.average_price]]
    ELSE IF ApplySellRaises(pos, t)
         THEN [outcome |-> "Cannot sell more than the current position quantity",
               position |-> pos]
         ELSE LET q == Sub(pos.quantity, t.quantity) IN
              [outcome |-> OK,
               position |-> IF Le(q, EPS) THEN [quantity |-> Zero, average_price |-> Zero]
                            ELSE [quantity |-> q, average_price |-> pos.average_price]]

---------------------------------------------------------------------------
(* portfolio.py: Portfolio *)

NewPortfolio(c) ==
    [cash |-> c, position |-> NewPosition, trade_history |-> <<>>,
     snapshots |-> <<>>, realised_pnl |-> Zero]

\* the mark-price guard of Portfolio._record_snapshot without isfinite
MarkRaises_sign_only(mark_price) == Le(mark_price, Zero)

\* the mark-price guard of Portfolio._record_snapshot
MarkRaises(mark_price) == ~isfinite(mark_price) \/ Le(mark_price, Zero)

\* Portfolio._record_snapshot valuing the position at its cost, not at the mark
Snapshot_at_cost(pf, timestamp, mark_price) ==
    [timestamp |-> timestamp,
     equity |-> Add(pf.cash, Mul(pf.position.quantity, pf.position.average_price)),
     cash |-> pf.cash,
     position_quantity |-> pf.position.quantity,
     position_value |-> Mul(pf.position.quantity, mark_price),
     unrealised_pnl |-> unrealised_pnl(pf.position, mark_price),
     realised_pnl |-> pf.realised_pnl,
     gross_exposure |-> Mul(RAbs(pf.position.quantity), mark_price)]

\* Portfolio._record_snapshot: the snapshot it builds
Snapshot(pf, timestamp, mark_price) ==
    [timestamp |-> timestamp,
     equity |-> Add(pf.cash, market_value(pf.position, mark_price)),
     cash |-> pf.cash,
     position_quantity |-> pf.position.quantity,
     position_value |-> market_value(pf.position, mark_price),
     unrealised_pnl |-> unrealised_pnl(pf.position, mark_price),
     realised_pnl |-> pf.realised_pnl,
     gross_exposure |-> Mul(RAbs(pf.position.quantity), mark_price)]

\* Portfolio.mark_to_market recording a snapshot only while a position is open
mark_to_market_if_open(pf, timestamp, mark_price) ==
    IF ~Gt(mark_price, Zero)
    THEN [outcome |-> "Mark price must be a positive, finite number", portfolio |-> pf]
    ELSE [outcome |-> "ok",
          portfolio |-> IF pf.position.quantity = Zero THEN pf
                        ELSE [pf EXCEPT !.snapshots =
                                  Append(@, Snapshot(pf, timestamp, mark_price))]]

\* a _record_snapshot that keeps only the latest snapshot
mark_to_market_latest_only(pf, timestamp, mark_price) ==
    IF MarkRaises(mark_price)
    THEN [outcome |-> "Mark price must be a positive, finite number", portfolio |-> pf]
    ELSE [outcome |-> OK,
          portfolio |-> [pf EXCEPT !.snapshots = <<Snapshot(pf, timestamp, mark_price)>>]]

\* a _record_snapshot that validates the price after appending the snapshot
mark_to_market_late_check(pf, timestamp, mark_price) ==
    [outcome |-> IF MarkRaises(mark_price)
                 THEN "Mark price must be a positive, finite number" ELSE OK,
     portfolio |-> [pf EXCEPT !.snapshots =
                        Append(@, Snapshot(pf, timestamp, mark_price))]]

\* Portfolio.mark_to_market / _record_snapshot: [outcome, portfolio]
mark_to_market(pf, timestamp, mark_price) ==
    IF MarkRaises(mark_price)
    THEN [outcome |-> "Mark price must be a positive, finite number", portfolio |-> pf]
    ELSE [outcome |-> OK,
          portfolio |-> [pf EXCEPT !.snapshots =
                             Append(@, Snapshot(pf, timestamp, mark_price))]]

\* the cash guard of a BUY in Portfolio.process_trade
BuyRaises(pf, total_cost) == Gt(Sub(total_cost, pf.cash), EPS)

\* Portfolio.process_trade without its oversell guard
SellRaises_never(pf, t) == FALSE

\* the oversell guard of a SELL in Portfolio.process_trade
SellRaises(pf, t) == Gt(Sub(t.quantity, pf.position.quantity), EPS)

\* realised P&L of a SELL taken at the quoted price, slippage left out
Realised_no_slippage(t, pre_trade_average_price) ==
    LET unit_fee == Div(t.fee, t.quantity) IN
    Mul(Sub(Sub(t.price, unit_fee), pre_trade_average_price), t.quantity)

\* realised P&L of a SELL that forgets the fee
Realised_no_fee(t, pre_trade_average_price) ==
    Mul(Sub(execution_price(t), pre_trade_average_price), t.quantity)

\* realised P&L accrued by a SELL in Portfolio.process_trade
Realised(t, pre_trade_average_price) ==
    LET unit_fee == Div(t.fee, t.quantity) IN
    Mul(Sub(Sub(execution_price(t), unit_fee), pre_trade_average_price), t.quantity)

\* Portfolio.process_trade: [outcome, portfolio].  The statements run in the
\* code's order, so a raise of Position.apply_trade would leave the cash changed.
process_trade(pf, t) ==
    IF Le(t.quantity, Zero)
    THEN [outcome |-> "Trade quantity must be positive", portfolio |-> pf]
    ELSE
    LET notional == Mul(execution_price(t), t.quantity)
        pre_trade_average_price == pf.position.average_price
        total_cost == Add(notional, t.fee)
        proceeds == Sub(notional, t.fee)
    IN
    IF t.side = BUY /\ BuyRaises(pf, total_cost)
    THEN [outcome |-> "Insufficient cash to execute buy trade", portfolio |-> pf]
    ELSE IF t.side = SELL /\ SellRaises(pf, t)
    THEN [outcome |-> "Cannot sell more than current position quantity", portfolio |-> pf]
    ELSE
    LET cash1 == IF t.side = BUY THEN Sub(pf.cash, total_cost) ELSE Add(pf.cash, proceeds)
        ap == apply_trade(pf.position, t)
    IN
    IF Raised(ap) THEN [outcome |-> ap.outcome, portfolio |-> [pf EXCEPT !.cash = cash1]]
    ELSE [outcome |-> OK,
          portfolio |->
              [pf EXCEPT !.cash = cash1,
                         !.position = ap.position,
                         !.trade_history = Append(@, t),
                         !.realised_pnl =
                             IF t.side = SELL
                             THEN Add(@, Realised(t, pre_trade_average_price))
                             ELSE @]]

---------------------------------------------------------------------------
(* performance.py *)

\* the larger of two floats, as Series.cummax takes it
Max2(a, b) == IF Gt(b, a) THEN b ELSE a

\* the smaller of two floats, as Series.min takes it
Min2(a, b) == IF Lt(b, a) THEN b ELSE a

\* a running maximum that is the maximum of the whole series at every point
RECURSIVE cummax_total(_)
cummax_total(series) ==
    IF Len(series) <= 1 THEN series
    ELSE LET rest == cummax_total(Tail(series))
             top == Max2(Head(series), Head(rest))
         IN  [i \in 1..Len(series) |-> top]

\* equity.cummax(): the running maximum of the series
RECURSIVE cummax(_)
cummax(series) ==
    IF Len(series) <= 1 THEN series
    ELSE LET front == cummax(SubSeq(series, 1, Len(series) - 1)) IN
         Append(front, Max2(front[Len(front)], series[Len(series)]))

\* drawdown.min(): the least element of a non-empty series
RECURSIVE series_min(_)
series_min(series) ==
    IF Len(series) = 1 THEN series[1]
    ELSE Min2(series[1], series_min(Tail(series)))

\* _calculate_max_drawdown(equity)
calculate_max_drawdown(series) ==
    LET running_max == cummax(series)
        drawdown == [i \in 1..Len(series) |-> Sub(Div(series[i], running_max[i]), One)]
    IN  series_min(drawdown)

\* the loop of _round_trip_pnls from a point of the list on, open_trade being
\* the BUY held open (side "none" standing for None)
RECURSIVE pnls_from(_, _)
pnls_from(trade_list, open_trade) ==
    IF trade_list = <<>> THEN <<>>
    ELSE LET trade == Head(trade_list) IN
         IF trade.side = BUY
         THEN pnls_from(Tail(trade_list), trade)
         ELSE IF trade.side = SELL /\ open_trade.side # "none"
         THEN LET quantity == Min2(open_trade.quantity, trade.quantity)
                  buy_price == execution_price(open_trade)
                  sell_price == execution_price(trade)
                  pnl == Sub(Mul(Sub(sell_price, buy_price), quantity),
                             Add(open_trade.fee, trade.fee))
              IN  <<pnl>> \o pnls_from(Tail(trade_list), [open_trade EXCEPT !.side = "none"])
         ELSE pnls_from(Tail(trade_list), open_trade)

\* _round_trip_pnls(trades)
round_trip_pnls(trade_list) ==
    pnls_from(trade_list, [timestamp |-> 0, side |-> "none", price |-> Zero,
                           quantity |-> Zero, fee |-> Zero, slippage |-> Zero])

\* nothing computed yet
NoMetrics == [computed |-> FALSE, max_drawdown |-> Zero, paired |-> FALSE,
              round_trip_pnls |-> <<>>]

---------------------------------------------------------------------------
(* Callers of Position and Portfolio: inputs *)

Sides == {BUY, SELL}
Quantities == {Zero, Rat(1, 2), Num(2), Rat(5, 2)}
\* price, fee and slippage of a trade: at par and free; dear with slippage; with a fee
Terms ==
    {[price |-> Num(1), fee |-> Zero, slippage |-> Zero],
     [price |-> Num(4), fee |-> Zero, slippage |-> Rat(1, 2)],
     [price |-> Num(2), fee |-> Num(3), slippage |-> Zero]}
MarkPrices == {Num(-1), Zero, Num(3), NaN}
\* the values of an equity Series given to the analyzer
EquityValues == {Num(-1), Num(1), Num(2), Num(3)}
InitialCash == {Zero, Num(6)}

TradeArgs ==
    {[timestamp |-> 1, side |-> s, price |-> x.price, quantity |-> q, fee |-> x.fee,
      slippage |-> x.slippage] : s \in Sides, q \in Quantities, x \in Terms}

NoTrade ==
    [timestamp |-> 0, side |-> "none", price |-> Zero, quantity |-> Zero,
     fee |-> Zero, slippage |-> Zero]

NoCall == [op |-> "none", trade |-> NoTrade, timestamp |-> 0, mark_price |-> Zero,
           outcome |-> "none"]

\* The caller's record of a call: the call made, the trade it applied (NoTrade
\* when it raised) and the outcome.
TradeCall(op, t, outcome) ==
    [op |-> op, trade |-> IF outcome = OK THEN t ELSE NoTrade, timestamp |-> 0,
     mark_price |-> Zero, outcome |-> outcome]

MarkCall(ts, p, outcome) ==
    [op |-> "mark_to_market", trade |-> NoTrade, timestamp |-> ts, mark_price |-> p,
     outcome |-> outcome]

NoEngine == [initial_balance |-> Zero, max_position_pct |-> Zero, fee_pct |-> Zero,
             slippage_pct |-> Zero, min_trade_value |-> Zero]

EngineIdle ==
    /\ engine = NoEngine /\ candles = <<>> /\ signals = <<>>
    /\ idx = 0 /\ row = 0 /\ pc = "none" /\ error = ""
    /\ previous = <<>>

\* the trades of a list given to the analyzer
AnalyzerTrades == {t \in TradeArgs : TradeValid(t) /\ t.quantity # Rat(5, 2)}

\* what the caller of performance.py has: an equity Series, or a trade list
AnalyzerInputs ==
    {[equity |-> series, trades |-> <<>>] : series \in SeqsUpTo(EquityValues, MaxCurve) \ {<<>>}}
    \cup {[equity |-> <<>>, trades |-> list] : list \in SeqsUpTo(AnalyzerTrades, MaxList) \ {<<>>}}

Init ==
    /\ driver \in {"position", "portfolio", "metrics"}
    /\ position = NewPosition
    /\ applied = 0
    /\ \E c \in InitialCash : portfolio = NewPortfolio(IF driver = "portfolio" THEN c ELSE Zero)
    /\ call = NoCall
    /\ EngineIdle
    /\ \E input \in IF driver = "metrics" THEN AnalyzerInputs
                     ELSE {[equity |-> <<>>, trades |-> <<>>]} :
          equity = input.equity /\ trades = input.trades
    /\ metrics = NoMetrics

\* Trade(...) raises in __post_init__: nothing is called
ConstructTradeFails ==
    /\ driver \in {"position", "portfolio"}
    /\ \E t \in TradeArgs :
          /\ ~TradeValid(t)
          /\ call' = TradeCall("Trade", t, TradeError(t))
    /\ UNCHANGED <<equity, metrics, previous, driver, position, applied, portfolio, engine, candles, signals, idx, row, trades, pc, error>>

\* position.apply_trade(Trade(...)) on the stand-alone Position
ApplyTrade ==
    /\ driver = "position"
    /\ applied < MaxTrades
    /\ \E t \in TradeArgs :
          /\ TradeValid(t)
          /\ LET r == apply_trade(position, t) IN
             /\ position' = r.position
             /\ applied' = IF Raised(r) THEN applied ELSE applied + 1
             /\ call' = TradeCall("apply_trade", t, r.outcome)
    /\ UNCHANGED <<equity, metrics, previous, driver, portfolio, engine, candles, signals, idx, row, trades, pc, error>>

\* portfolio.process_trade(Trade(...))
ProcessTrade ==
    /\ driver = "portfolio"
    /\ Len(portfolio.trade_history) < MaxTrades
    /\ \E t \in TradeArgs :
          /\ TradeValid(t)
          /\ LET r == process_trade(portfolio, t) IN
             /\ portfolio' = r.portfolio
             /\ call' = TradeCall("process_trade", t, r.outcome)
    /\ UNCHANGED <<equity, metrics, previous, driver, position, applied, engine, candles, signals, idx, row, trades, pc, error>>

\* portfolio.mark_to_market(timestamp, mark_price)
MarkToMarket ==
    /\ driver = "portfolio"
    /\ Len(portfolio.snapshots) < MaxSnaps
    /\ \E ts \in {Len(portfolio.snapshots) + 1}, p \in MarkPrices :
          LET r == mark_to_market(portfolio, ts, p) IN
          /\ portfolio' = r.portfolio
          /\ call' = MarkCall(ts, p, r.outcome)
    /\ UNCHANGED <<equity, metrics, previous, driver, position, applied, engine, candles, signals, idx, row, trades, pc, error>>

\* _calculate_max_drawdown(equity) on the non-empty Series the caller has
CalculateMaxDrawdown ==
    /\ driver = "metrics"
    /\ equity # <<>>
    /\ ~metrics.computed
    /\ metrics' = [metrics EXCEPT !.computed = TRUE,
                                  !.max_drawdown = calculate_max_drawdown(equity)]
    /\ UNCHANGED <<equity, previous, driver, position, applied, portfolio, call, engine,
                   candles, signals, idx, row, trades, pc, error>>

\* _round_trip_pnls(trades) on the trade list the caller has
RoundTripPnls ==
    /\ driver = "metrics"
    /\ ~metrics.paired
    /\ metrics' = [metrics EXCEPT !.paired = TRUE,
                                  !.round_trip_pnls = round_trip_pnls(trades)]
    /\ UNCHANGED <<equity, previous, driver, position, applied, portfolio, call, engine,
                   candles, signals, idx, row, trades, pc, error>>

Next ==
    ConstructTradeFails \/ ApplyTrade \/ ProcessTrade \/ MarkToMarket \/ CalculateMaxDrawdown
        \/ RoundTripPnls

Spec == Init /\ [][Next]_vars

---------------------------------------------------------------------------
(* engine.py: ExecutionEngine *)

\* ExecutionEngine.__init__ guarding only against max_position_pct > 1
ConfigRaises_upper_only(cfg) == Gt(cfg.max_position_pct, One)

\* ExecutionEngine.__init__: the only guard is on max_position_pct
ConfigRaises(cfg) ==
    ~(Gt(cfg.max_position_pct, Zero) /\ Le(cfg.max_position_pct, One))

\* The Trade that _rebalance builds for a BUY
BuyTrade(eng, pf, timestamp, price) ==
    LET desired_value == Mul(pf.cash, eng.max_position_pct) IN
    [timestamp |-> timestamp, side |-> BUY, price |-> price,
     quantity |-> Div(desired_value, price),
     fee |-> Mul(desired_value, eng.fee_pct), slippage |-> eng.slippage_pct]

\* a SELL of half the held quantity
SellTrade_half(eng, pf, timestamp, price) ==
    LET quantity == Div(pf.position.quantity, Num(2)) IN
    [timestamp |-> timestamp, side |-> "sell", price |-> price, quantity |-> quantity,
     fee |-> Mul(Mul(price, quantity), eng.fee_pct), slippage |-> eng.slippage_pct]

\* The Trade that _rebalance builds for a SELL
SellTrade(eng, pf, timestamp, price) ==
    LET quantity == pf.position.quantity IN
    [timestamp |-> timestamp, side |-> SELL, price |-> price, quantity |-> quantity,
     fee |-> Mul(Mul(price, quantity), eng.fee_pct), slippage |-> eng.slippage_pct]

\* Trade(...) then portfolio.process_trade(trade), without trades.append(trade)
Submit_unlogged(pf, t) ==
    IF ~TradeValid(t)
    THEN [outcome |-> TradeError(t), class |-> "ValueError", portfolio |-> pf, trades |-> <<>>]
    ELSE LET r == process_trade(pf, t) IN
         [outcome |-> r.outcome, class |-> IF Raised(r) THEN "ValueError" ELSE "",
          portfolio |-> r.portfolio, trades |-> <<>>]

\* Trade(...) then portfolio.process_trade(trade) then trades.append(trade)
Submit(pf, t) ==
    IF ~TradeValid(t)
    THEN [outcome |-> TradeError(t), class |-> "ValueError", portfolio |-> pf, trades |-> <<>>]
    ELSE LET r == process_trade(pf, t) IN
         [outcome |-> r.outcome, class |-> IF Raised(r) THEN "ValueError" ELSE "",
          portfolio |-> r.portfolio, trades |-> IF Raised(r) THEN <<>> ELSE <<t>>]

\* ExecutionEngine._rebalance buying on target_direction 1 whatever the position
rebalance_no_hold(eng, pf, timestamp, price, target_direction) ==
    IF target_direction \notin {0, 1}
    THEN [outcome |-> "Unsupported direction", class |-> "ValueError",
          portfolio |-> pf, trades |-> <<>>]
    ELSE IF target_direction = 1
    THEN IF Lt(Mul(pf.cash, eng.max_position_pct), eng.min_trade_value)
         THEN [outcome |-> "ok", class |-> "", portfolio |-> pf, trades |-> <<>>]
         ELSE IF price = Zero
         THEN [outcome |-> "float division by zero", class |-> "ZeroDivisionError",
               portfolio |-> pf, trades |-> <<>>]
         ELSE Submit(pf, BuyTrade(eng, pf, timestamp, price))
    ELSE IF Gt(pf.position.quantity, Zero)
    THEN Submit(pf, SellTrade(eng, pf, timestamp, price))
    ELSE [outcome |-> "ok", class |-> "", portfolio |-> pf, trades |-> <<>>]

\* ExecutionEngine._rebalance: [outcome, class, portfolio, trades]
rebalance(eng, pf, timestamp, price, target_direction) ==
    IF target_direction \notin {0, 1}
    THEN [outcome |-> "Unsupported direction", class |-> "ValueError",
          portfolio |-> pf, trades |-> <<>>]
    ELSE IF target_direction = 1 /\ Le(pf.position.quantity, Zero)
    THEN IF Lt(Mul(pf.cash, eng.max_position_pct), eng.min_trade_value)
         THEN [outcome |-> OK, class |-> "", portfolio |-> pf, trades |-> <<>>]
         ELSE IF price = Zero
         THEN [outcome |-> "float division by zero", class |-> "ZeroDivisionError",
               portfolio |-> pf, trades |-> <<>>]
         ELSE Submit(pf, BuyTrade(eng, pf, timestamp, price))
    ELSE IF target_direction = 0 /\ Gt(pf.position.quantity, Zero)
    THEN Submit(pf, SellTrade(eng, pf, timestamp, price))
    ELSE [outcome |-> OK, class |-> "", portfolio |-> pf, trades |-> <<>>]

\* run_backtest sharing the portfolio and the trade list between calls
RunStart_shared(eng, pf, ts) == [portfolio |-> pf, trades |-> ts]

\* run_backtest, `portfolio = Portfolio(cash=self.initial_balance)` and
\* `trades = []`: what a run starts from, whatever portfolio pf and trade list
\* ts an earlier call left behind
RunStart(eng, pf, ts) == [portfolio |-> NewPortfolio(eng.initial_balance), trades |-> <<>>]

\* run_backtest, the rows of the equity_curve frame built from the snapshots
equity_curve(pf) ==
    [i \in 1..Len(pf.snapshots) |->
        [timestamp |-> pf.snapshots[i].timestamp,
         equity |-> pf.snapshots[i].equity,
         cash |-> pf.snapshots[i].cash,
         position |-> pf.snapshots[i].position_quantity,
         unrealised_pnl |-> pf.snapshots[i].unrealised_pnl]]

\* the BacktestResult run_backtest returns (its metrics apart)
BacktestResult(pf, ts) == [portfolio |-> pf, trades |-> ts, equity_curve |-> equity_curve(pf)]

\* candles.sort_values("timestamp"): is `sorted` an ordering of `frame` by timestamp.
\* The default sort is not stable, so rows with equal timestamps may come in any order.
IsSortOf(sorted, frame) ==
    /\ Len(sorted) = Len(frame)
    /\ \E p \in [1..Len(frame) -> 1..Len(frame)] :
          /\ \A i, j \in 1..Len(frame) : i # j => p[i] # p[j]
          /\ \A i \in 1..Len(frame) : sorted[i] = frame[p[i]]
    /\ \A i \in 1..(Len(sorted) - 1) : sorted[i].timestamp <= sorted[i + 1].timestamp

\* signal_df.loc[timestamp]: the signal rows at the candle's timestamp, in order
RowsAt(sigs, timestamp) == SelectSeq(sigs, LAMBDA r : r.timestamp = timestamp)

---------------------------------------------------------------------------
(* Callers of the engine: inputs *)

Timestamps == {1, 2}
Closes == {Num(-1), Zero, Num(1), Num(4), NaN}
Directions == {0, 1, 2}
CandleRows == [timestamp : Timestamps, close : Closes]
SignalRows == [timestamp : Timestamps, direction : Directions]
\* the rows of a candle frame that has no close column
BareRows == [timestamp : Timestamps]

\* arguments with a negative or non-finite fee_pct, slippage_pct or min_trade_value
OddEngineArgs ==
    {[initial_balance |-> Num(8), max_position_pct |-> One, fee_pct |-> c.fee_pct,
      slippage_pct |-> c.slippage_pct, min_trade_value |-> c.min_trade_value] :
        c \in {[fee_pct |-> Num(-1), slippage_pct |-> Zero, min_trade_value |-> Zero],
               [fee_pct |-> Zero, slippage_pct |-> NaN, min_trade_value |-> Zero],
               [fee_pct |-> Zero, slippage_pct |-> Zero, min_trade_value |-> Num(-1)]}}

EngineArgs ==
    {[initial_balance |-> b, max_position_pct |-> m, fee_pct |-> c.fee_pct,
      slippage_pct |-> c.slippage_pct, min_trade_value |-> v] :
        b \in {Zero, Num(8)},
        m \in {Num(-1), Zero, Rat(1, 4), One, Rat(3, 2)},
        c \in {[fee_pct |-> Zero, slippage_pct |-> Zero],
               [fee_pct |-> One, slippage_pct |-> One]},
        v \in {Zero, Num(3)}}
    \cup OddEngineArgs

EInit ==
    /\ driver = "engine"
    /\ position = NewPosition
    /\ applied = 0
    /\ portfolio = NewPortfolio(Zero)
    /\ call = NoCall
    /\ engine = NoEngine /\ candles = <<>> /\ signals = <<>>
    /\ idx = 0 /\ row = 0 /\ trades = <<>> /\ pc = "new" /\ error = ""
    /\ previous = <<>>
    /\ equity = <<>> /\ metrics = NoMetrics

\* ExecutionEngine(strategy, ...) raises
ConstructFails ==
    /\ pc = "new"
    /\ \E cfg \in EngineArgs : ConfigRaises(cfg) /\ engine' = cfg
    /\ call' = [NoCall EXCEPT !.op = "ExecutionEngine",
                              !.outcome = "max_position_pct must be between 0 and 1"]
    /\ pc' = "raised" /\ error' = "ValueError"
    /\ UNCHANGED <<equity, metrics, previous, driver, position, applied, portfolio, candles, signals,
                   idx, row, trades>>

\* ExecutionEngine(strategy, ...)
Construct ==
    /\ pc = "new"
    /\ \E cfg \in EngineArgs : ~ConfigRaises(cfg) /\ engine' = cfg
    /\ pc' = "ready"
    /\ UNCHANGED <<equity, metrics, previous, driver, position, applied, portfolio, call, candles, signals,
                   idx, row, trades, error>>

\* run_backtest(candles) with an empty frame
RunEmpty ==
    /\ pc = "ready"
    /\ pc' = "raised" /\ error' = "ValueError"
    /\ UNCHANGED <<equity, metrics, previous, driver, position, applied, portfolio, call, engine, candles, signals,
                   idx, row, trades>>

\* run_backtest(candles): strategy.generate_signals raises (the shipped
\* EMACrossStrategy calls .diff() on a numpy array), after the sort
RunStrategyRaises ==
    /\ pc = "ready"
    /\ \E frame \in SeqsUpTo(CandleRows, MaxCandles) :
          /\ frame # <<>>
          /\ \E sorted \in SeqsUpTo(CandleRows, MaxCandles) :
                IsSortOf(sorted, frame) /\ candles' = sorted
    /\ pc' = "raised" /\ error' = "AttributeError"
    /\ UNCHANGED <<equity, metrics, previous, driver, position, applied, portfolio, call, engine, signals,
                   idx, row, trades>>

\* run_backtest(candles) on a frame without a close column: after the sort,
\* EMACrossStrategy.generate_signals raises KeyError for the missing column; a
\* strategy that does not look at the column returns and candle["close"], the
\* second statement of the loop, raises KeyError on the first candle
RunMissingClose ==
    /\ pc = "ready"
    /\ \E frame \in SeqsUpTo(BareRows, MaxCandles) :
          /\ frame # <<>>
          /\ \E sorted \in SeqsUpTo(BareRows, MaxCandles) :
                IsSortOf(sorted, frame) /\ candles' = sorted
    /\ pc' = "raised" /\ error' = "KeyError"
    /\ UNCHANGED <<equity, metrics, previous, driver, position, applied, portfolio, call, engine, signals,
                   idx, row, trades>>

\* run_backtest(candles) up to the loop: the sort, the signals the strategy
\* returns, signal_df.set_index("timestamp") (a KeyError when there is no signal
\* row, the frame then having no columns), the fresh Portfolio
RunBacktest ==
    /\ pc = "ready"
    /\ \E frame \in SeqsUpTo(CandleRows, MaxCandles), sigs \in SeqsUpTo(SignalRows, MaxSignals) :
          /\ frame # <<>>
          /\ \E sorted \in SeqsUpTo(CandleRows, MaxCandles) :
                IsSortOf(sorted, frame) /\ candles' = sorted
          /\ signals' = sigs
          /\ IF sigs = <<>>
             THEN /\ pc' = "raised" /\ error' = "KeyError"
                  /\ UNCHANGED <<portfolio, trades, idx, row>>
             ELSE /\ pc' = "loop" /\ error' = ""
                  /\ portfolio' = RunStart(engine, portfolio, trades).portfolio
                  /\ trades' = RunStart(engine, portfolio, trades).trades
                  /\ idx' = 1 /\ row' = 1
    /\ UNCHANGED <<equity, metrics, previous, driver, position, applied, call, engine>>

\* run_backtest(candles) called again on the engine after a completed run, with
\* the same frame (so the same sorted candles) and the strategy returning the
\* same signals; the caller keeps the result of the earlier run
RunAgain ==
    /\ pc = "done"
    /\ Len(previous) + 1 < MaxRuns
    /\ previous' = Append(previous, BacktestResult(portfolio, trades))
    /\ pc' = "loop"
    /\ portfolio' = RunStart(engine, portfolio, trades).portfolio
    /\ trades' = RunStart(engine, portfolio, trades).trades
    /\ idx' = 1 /\ row' = 1
    /\ call' = NoCall
    /\ UNCHANGED <<equity, metrics, driver, position, applied, engine, candles, signals, error>>

\* one pass of `for row in signal_rows`: _rebalance on the bar's next signal row
Rebalance ==
    /\ pc = "loop"
    /\ LET candle == candles[idx]
           rows == RowsAt(signals, candle.timestamp)
       IN
       /\ row <= Len(rows)
       /\ LET r == rebalance(engine, portfolio, candle.timestamp, candle.close,
                             rows[row].direction)
          IN
          /\ portfolio' = r.portfolio
          /\ call' = [op |-> "_rebalance",
                      trade |-> IF r.trades = <<>> THEN NoTrade ELSE r.trades[1],
                      timestamp |-> candle.timestamp, mark_price |-> candle.close,
                      outcome |-> r.outcome]
          /\ IF r.outcome = OK
             THEN /\ trades' = trades \o r.trades
                  /\ row' = row + 1
                  /\ UNCHANGED <<pc, error>>
             ELSE /\ pc' = "raised" /\ error' = r.class
                  /\ UNCHANGED <<trades, row>>
    /\ UNCHANGED <<equity, metrics, previous, driver, position, applied, engine, candles, signals, idx>>

\* the end of a pass of `for idx, candle in candles.iterrows()`:
\* portfolio.mark_to_market(timestamp, price); after the last candle the
\* result is built and returned
MarkBar ==
    /\ pc = "loop"
    /\ LET candle == candles[idx]
           rows == RowsAt(signals, candle.timestamp)
       IN
       /\ row > Len(rows)
       /\ LET r == mark_to_market(portfolio, candle.timestamp, candle.close) IN
          /\ portfolio' = r.portfolio
          /\ call' = MarkCall(candle.timestamp, candle.close, r.outcome)
          /\ IF Raised(r)
             THEN /\ pc' = "raised" /\ error' = "ValueError"
                  /\ UNCHANGED <<idx, row>>
             ELSE /\ idx' = idx + 1 /\ row' = 1
                  /\ pc' = IF idx = Len(candles) THEN "done" ELSE "loop"
                  /\ UNCHANGED error
    /\ UNCHANGED <<equity, metrics, previous, driver, position, applied, engine, candles, signals, trades>>

ENext ==
    ConstructFails \/ Construct \/ RunEmpty \/ RunStrategyRaises \/ RunBacktest
        \/ RunMissingClose \/ RunAgain \/ Rebalance \/ MarkBar

SpecEngine == EInit /\ [][ENext]_vars

---------------------------------------------------------------------------
(* The engine's BUY in float arithmetic *)

\* the exponents of the floats the inputs lead to
FloatExponents == -12..12

\* 2^k as a value
TwoTo(k) == IF k >= 0 THEN Num(2^k) ELSE Rat(1, 2^(-k))

\* k is the exponent of the positive value a:
\* 2^(FloatBits-1) * 2^k <= a < 2^FloatBits * 2^k
IsExponent(a, k) ==
    /\ Le(Mul(Num(2^(FloatBits - 1)), TwoTo(k)), a)
    /\ Lt(a, Mul(Num(2^FloatBits), TwoTo(k)))

\* the exponent of the positive value a
ExponentOf(a) == CHOOSE k \in FloatExponents : IsExponent(a, k)

\* the integer nearest to the positive value m, ties to the even one
NearestInteger(m) ==
    LET k == m.n \div m.d
        twice == 2 * (m.n % m.d)
    IN  IF twice > m.d \/ (twice = m.d /\ k % 2 = 1) THEN k + 1 ELSE k

\* the float of exponent e nearest to the positive value a
NearestAt(a, e) == Mul(Num(NearestInteger(Div(a, TwoTo(e)))), TwoTo(e))

\* the float nearest to the exact value x, ties to the even significand
fl(x) ==
    IF x = NaN \/ x = Zero THEN x
    ELSE IF x.n < 0 THEN Neg(NearestAt(RAbs(x), ExponentOf(RAbs(x))))
    ELSE NearestAt(x, ExponentOf(x))

\* float +, -, *, /
fadd(a, b) == fl(Add(a, b))
fsub(a, b) == fl(Sub(a, b))
fmul(a, b) == fl(Mul(a, b))
fdiv(a, b) == fl(Div(a, b))

\* Position.apply_trade of a BUY, in floats
float_apply_buy(pos, t, e) ==
    LET unit_cost == fadd(e, fdiv(t.fee, t.quantity))
        new_notional == fadd(fmul(pos.average_price, pos.quantity),
                             fmul(unit_cost, t.quantity))
        q == fadd(pos.quantity, t.quantity)
    IN  [quantity |-> q,
         average_price |-> IF q # Zero THEN fdiv(new_notional, q) ELSE pos.average_price]

\* Portfolio.process_trade of a BUY, in floats: [outcome, class, portfolio, trades]
float_process_buy(pf, t) ==
    LET e == fmul(t.price, fadd(One, t.slippage))
        notional == fmul(e, t.quantity)
        total_cost == fadd(notional, t.fee)
    IN  IF Gt(fsub(total_cost, pf.cash), EPS)
        THEN [outcome |-> "Insufficient cash to execute buy trade", class |-> "ValueError",
              portfolio |-> pf, trades |-> <<>>]
        ELSE [outcome |-> OK, class |-> "",
              portfolio |-> [pf EXCEPT !.cash = fsub(pf.cash, total_cost),
                                       !.position = float_apply_buy(pf.position, t, e),
                                       !.trade_history = Append(@, t)],
              trades |-> <<t>>]

\* ExecutionEngine._rebalance with target_direction 1 on a flat position, in floats
float_rebalance_buy(eng, pf, timestamp, price) ==
    LET desired_value == fmul(pf.cash, eng.max_position_pct)
        trade == [timestamp |-> timestamp, side |-> BUY, price |-> price,
                  quantity |-> fdiv(desired_value, price),
                  fee |-> fmul(desired_value, eng.fee_pct), slippage |-> eng.slippage_pct]
    IN  IF Lt(desired_value, eng.min_trade_value)
        THEN [outcome |-> OK, class |-> "", portfolio |-> pf, trades |-> <<>>]
        ELSE IF price = Zero
        THEN [outcome |-> "float division by zero", class |-> "ZeroDivisionError",
              portfolio |-> pf, trades |-> <<>>]
        ELSE IF ~TradeValid(trade)
        THEN [outcome |-> TradeError(trade), class |-> "ValueError", portfolio |-> pf,
              trades |-> <<>>]
        ELSE float_process_buy(pf, trade)

\* inputs, each a float of FloatBits bits
FloatBalances == {Num(16), Num(20), Num(24), Num(28), Num(30)}
FloatCloses == {Num(1), Num(3), Num(5), Num(7), Num(11)}
FloatEngineArgs ==
    {[initial_balance |-> b, max_position_pct |-> c.max_position_pct, fee_pct |-> c.fee_pct,
      slippage_pct |-> c.slippage_pct, min_trade_value |-> Zero] :
        b \in FloatBalances,
        c \in {[max_position_pct |-> One, fee_pct |-> Zero, slippage_pct |-> Zero],
               [max_position_pct |-> Rat(1, 2), fee_pct |-> Rat(1, 2), slippage_pct |-> Rat(1, 2)],
               [max_position_pct |-> Rat(1, 4), fee_pct |-> One, slippage_pct |-> One],
               [max_position_pct |-> One, fee_pct |-> Rat(1, 2), slippage_pct |-> Zero]}}

\* an engine the constructor accepted, not yet run
FInit ==
    /\ driver = "engine_float"
    /\ position = NewPosition
    /\ applied = 0
    /\ call = NoCall
    /\ \E cfg \in FloatEngineArgs :
          /\ ~ConfigRaises(cfg)
          /\ engine = cfg
          /\ portfolio = NewPortfolio(cfg.initial_balance)
    /\ candles = <<>> /\ signals = <<>>
    /\ idx = 0 /\ row = 0 /\ trades = <<>> /\ pc = "ready" /\ error = ""
    /\ previous = <<>>
    /\ equity = <<>> /\ metrics = NoMetrics

\* run_backtest(candles) on one bar with the signal 1, up to the loop
FloatRunBacktest ==
    /\ driver = "engine_float" /\ pc = "ready"
    /\ \E close \in FloatCloses :
          /\ candles' = <<[timestamp |-> 1, close |-> close]>>
          /\ signals' = <<[timestamp |-> 1, direction |-> 1]>>
    /\ portfolio' = RunStart(engine, portfolio, trades).portfolio
    /\ trades' = RunStart(engine, portfolio, trades).trades
    /\ idx' = 1 /\ row' = 1 /\ pc' = "loop" /\ error' = ""
    /\ UNCHANGED <<equity, metrics, previous, driver, position, applied, call, engine>>

\* the pass of `for row in signal_rows` on the bar's signal: the BUY of _rebalance
FloatRebalance ==
    /\ driver = "engine_float" /\ pc = "loop" /\ row = 1
    /\ LET candle == candles[idx]
           r == float_rebalance_buy(engine, portfolio, candle.timestamp, candle.close)
       IN  /\ portfolio' = r.portfolio
           /\ call' = [op |-> "_rebalance",
                       trade |-> IF r.trades = <<>> THEN NoTrade ELSE r.trades[1],
                       timestamp |-> candle.timestamp, mark_price |-> candle.close,
                       outcome |-> r.outcome]
           /\ IF r.outcome = OK
              THEN /\ trades' = trades \o r.trades
                   /\ row' = row + 1
                   /\ UNCHANGED <<pc, error>>
              ELSE /\ pc' = "raised" /\ error' = r.class
                   /\ UNCHANGED <<trades, row>>
    /\ UNCHANGED <<equity, metrics, previous, driver, position, applied, engine, candles,
                   signals, idx>>

FNext == FloatRunBacktest \/ FloatRebalance

SpecFloat == FInit /\ [][FNext]_vars

---------------------------------------------------------------------------
(* Claims *)

Last(q) == q[Len(q)]

HasDuplicates(cs) == \E i, j \in 1..Len(cs) : i # j /\ cs[i].timestamp = cs[j].timestamp

\* C1 (as claimed): in a completed run of an engine the constructor accepted,
\* with initial_balance >= 0, every snapshot's cash is >= -1e-9.
C1_Solvency ==
    (driver = "engine" /\ pc = "done") =>
        \A i \in 1..Len(portfolio.snapshots) : Ge(portfolio.snapshots[i].cash, Neg(EPS))

\* C2 (as claimed): a Portfolio that started with cash >= 0 and flat keeps
\* cash >= -1e-9 after any sequence of process_trade calls.
C2_CashNeverNegative ==
    driver = "portfolio" => Ge(portfolio.cash, Neg(EPS))

\* the quantity held by the object the caller drives
Held == IF driver = "position" THEN position.quantity ELSE portfolio.position.quantity

\* C3: the quantity of a Position, stand-alone or a Portfolio's, is never
\* negative after apply_trade / process_trade, accepted or rejected; an accepted
\* SELL of more than the holding (by at most 1e-9) leaves it exactly 0.
C3_ExposureInvariant ==
    [][/\ Ge(position'.quantity, Zero)
       /\ Ge(portfolio'.position.quantity, Zero)
       /\ (/\ call'.op \in {"apply_trade", "process_trade"}
           /\ call'.outcome = OK
           /\ call'.trade.side = SELL
           /\ Gt(call'.trade.quantity, Held)) => Held' = Zero]_vars

\* C3 witness: a BUY, then an accepted SELL of more than was bought, left the position flat
C3_Witness ==
    /\ driver = "portfolio"
    /\ Len(portfolio.trade_history) = 2
    /\ portfolio.trade_history[1].side = BUY
    /\ portfolio.trade_history[2].side = SELL
    /\ Gt(portfolio.trade_history[2].quantity, portfolio.trade_history[1].quantity)
    /\ call.op = "process_trade" /\ call.outcome = OK
    /\ portfolio.position.quantity = Zero

\* C4: the snapshot mark_to_market appends has equity = cash + position_quantity *
\* mark_price, its cash and position_quantity being the portfolio's at the mark.
C4_EquityReconciliation ==
    (call.op = "mark_to_market" /\ call.outcome = OK) =>
        LET s == Last(portfolio.snapshots) IN
        /\ s.equity = Add(s.cash, Mul(s.position_quantity, call.mark_price))
        /\ s.cash = portfolio.cash
        /\ s.position_quantity = portfolio.position.quantity

\* C4 witness: a mark of an open position whose average price is not the mark price
C4_Witness ==
    /\ driver = "portfolio"
    /\ call.op = "mark_to_market" /\ call.outcome = OK
    /\ Gt(portfolio.position.quantity, Zero)
    /\ portfolio.position.average_price # call.mark_price

\* what an accepted trade adds to the cash
CashFlow(t) ==
    IF t.side = BUY THEN Neg(Add(Mul(execution_price(t), t.quantity), t.fee))
    ELSE Sub(Mul(execution_price(t), t.quantity), t.fee)

RECURSIVE CashFlows(_)
CashFlows(h) == IF h = <<>> THEN Zero ELSE Add(CashFlows(SubSeq(h, 1, Len(h) - 1)), CashFlow(Last(h)))

\* C0, the cash the Portfolio was created with: the cash now less the flows of its trades
InitialCashOf(pf) == Sub(pf.cash, CashFlows(pf.trade_history))

BookValue(pf) == Add(pf.cash, Mul(pf.position.average_price, pf.position.quantity))

\* C5 (as claimed): cash + average_price * quantity = C0 + realised_pnl after every
\* accepted trade, BUY or SELL, to within the tolerance 1e-9, so that every
\* snapshot has equity = C0 + realised_pnl + unrealised_pnl.
C5_PnlReconciliation ==
    driver = "portfolio" =>
        /\ InitialCashOf(portfolio) \in InitialCash
        /\ Le(RAbs(Sub(BookValue(portfolio),
                       Add(InitialCashOf(portfolio), portfolio.realised_pnl))), EPS)

Oversell == "Cannot sell more than current position quantity"

\* a SELL of more than the portfolio holds, beyond the tolerance
Oversells(pf, t) ==
    TradeValid(t) /\ t.side = SELL /\ Gt(Sub(t.quantity, pf.position.quantity), EPS)

\* C6: process_trade with a SELL whose quantity exceeds the position's by more
\* than 1e-9 raises and leaves the whole portfolio (cash, position, realised_pnl,
\* trade_history, snapshots) as it was: in every reachable portfolio, for every
\* such SELL; no accepted SELL exceeded the holding by more than 1e-9; and a call
\* that raised the oversell error changed nothing.
C6_NoOversellAtomic ==
    [][/\ \A t \in TradeArgs :
             Oversells(portfolio', t) =>
                 process_trade(portfolio', t) = [outcome |-> Oversell, portfolio |-> portfolio']
       /\ (call'.op = "process_trade" /\ call'.outcome = OK /\ call'.trade.side = SELL)
              => ~Oversells(portfolio, call'.trade)
       /\ (call'.op = "process_trade" /\ call'.outcome = Oversell)
              => portfolio' = portfolio]_vars

\* C6 witness: after a BUY, a SELL was refused as an oversell
C6_Witness ==
    /\ driver = "portfolio"
    /\ call.op = "process_trade" /\ call.outcome = Oversell
    /\ Len(portfolio.trade_history) = 1
    /\ portfolio.trade_history[1].side = BUY
    /\ Gt(portfolio.position.quantity, Zero)

\* a BUY whose cost exceeds the cash, beyond the tolerance
Unaffordable(pf, t) ==
    /\ TradeValid(t) /\ t.side = BUY
    /\ Gt(Sub(Add(Mul(execution_price(t), t.quantity), t.fee), pf.cash), EPS)

\* C7: a process_trade call either succeeds, appending exactly the trade to
\* trade_history, moving the cash by the trade's flow, updating the position by
\* apply_trade and touching realised_pnl only for a SELL, or raises and leaves
\* the portfolio as it was; a BUY costing more than the cash (beyond 1e-9) raises.
C7_AllOrNothing ==
    [][/\ call'.op = "process_trade" =>
             IF call'.outcome = OK
             THEN LET t == call'.trade IN
                  /\ portfolio'.trade_history = Append(portfolio.trade_history, t)
                  /\ portfolio'.cash = Add(portfolio.cash, CashFlow(t))
                  /\ portfolio'.position = apply_trade(portfolio.position, t).position
                  /\ t.side = BUY => portfolio'.realised_pnl = portfolio.realised_pnl
                  /\ portfolio'.snapshots = portfolio.snapshots
             ELSE portfolio' = portfolio
       /\ \A t \in TradeArgs :
             Unaffordable(portfolio', t) =>
                 /\ Raised(process_trade(portfolio', t))
                 /\ process_trade(portfolio', t).portfolio = portfolio']_vars

\* C7 witness: a BUY was refused for lack of cash after an accepted trade
C7_Witness ==
    /\ driver = "portfolio"
    /\ call.op = "process_trade"
    /\ call.outcome = "Insufficient cash to execute buy trade"
    /\ Len(portfolio.trade_history) = 1

\* the instance of C8, amounts in the model's unit
C8_Instance ==
    LET buy == [timestamp |-> 1, side |-> BUY, price |-> Num(100), quantity |-> One,
                fee |-> Zero, slippage |-> Zero]
        sell == [timestamp |-> 2, side |-> SELL, price |-> Num(120), quantity |-> One,
                 fee |-> Zero, slippage |-> Zero]
        p1 == process_trade(NewPortfolio(Num(1000)), buy).portfolio
        p2 == process_trade(p1, sell).portfolio
    IN  /\ p1.cash = Num(900)
        /\ p1.position = [quantity |-> One, average_price |-> Num(100)]
        /\ p2.cash = Num(1020)
        /\ p2.position = NewPosition
        /\ p2.realised_pnl = Num(20)

\* C8: with e the execution price and q the quantity, an accepted BUY takes
\* e*q + fee from the cash and leaves realised_pnl; an accepted SELL adds e*q - fee
\* to the cash and ((e - fee/q) - average_price before the trade) * q to realised_pnl.
C8_TradeAccounting ==
    [][(call'.op = "process_trade" /\ call'.outcome = OK) =>
          LET t == call'.trade
              e == execution_price(t)
              q == t.quantity
              a == portfolio.position.average_price
          IN  /\ C8_Instance
              /\ IF t.side = BUY
                 THEN /\ portfolio'.cash = Sub(portfolio.cash, Add(Mul(e, q), t.fee))
                      /\ portfolio'.realised_pnl = portfolio.realised_pnl
                 ELSE /\ portfolio'.cash = Add(portfolio.cash, Sub(Mul(e, q), t.fee))
                      /\ portfolio'.realised_pnl =
                             Add(portfolio.realised_pnl,
                                 Mul(Sub(Sub(e, Div(t.fee, q)), a), q))]_vars

\* C8 witness: a SELL with a fee and slippage was accepted on a position bought before
C8_Witness ==
    /\ driver = "portfolio"
    /\ call.op = "process_trade" /\ call.outcome = OK
    /\ Len(portfolio.trade_history) = 2
    /\ portfolio.trade_history[1].side = BUY
    /\ call.trade.side = SELL
    /\ Gt(call.trade.fee, Zero)
    /\ portfolio.realised_pnl # Zero

\* C9 (as claimed): run_backtest on candles two of which share a timestamp
\* does not complete: it returns no result.
C9_DuplicatesRejected ==
    (driver = "engine" /\ pc = "done") => ~HasDuplicates(candles)

\* C10: while the loop runs, the bars before the current one have one snapshot
\* each, the i-th with the i-th candle's timestamp and marked at its close; a
\* completed run has as many snapshots as candles, in non-decreasing timestamp
\* order; a trade is applied only while its bar's snapshot is not yet taken, and
\* the bar's snapshot shows the cash and quantity the trades left.
C10_OneSnapshotPerCandle ==
    [][/\ pc' \in {"loop", "done"} =>
             LET snaps == portfolio'.snapshots IN
             /\ Len(snaps) = idx' - 1
             /\ \A i \in 1..Len(snaps) :
                   /\ snaps[i].timestamp = candles'[i].timestamp
                   /\ snaps[i].position_value = Mul(snaps[i].position_quantity, candles'[i].close)
                   /\ snaps[i].equity = Add(snaps[i].cash, snaps[i].position_value)
             /\ \A i \in 1..(Len(snaps) - 1) : snaps[i].timestamp <= snaps[i + 1].timestamp
             /\ pc' = "done" => Len(snaps) = Len(candles')
       /\ (pc = "loop" /\ portfolio'.trade_history # portfolio.trade_history) =>
             /\ portfolio'.snapshots = portfolio.snapshots
             /\ Len(portfolio.snapshots) = idx - 1
             /\ Last(portfolio'.trade_history).timestamp = candles[idx].timestamp
       /\ (pc = "loop" /\ portfolio'.snapshots # portfolio.snapshots) =>
             /\ Len(portfolio'.snapshots) = Len(portfolio.snapshots) + 1
             /\ Last(portfolio'.snapshots).cash = portfolio.cash
             /\ Last(portfolio'.snapshots).position_quantity = portfolio.position.quantity
             /\ portfolio'.trade_history = portfolio.trade_history]_vars

\* C10 witness: a completed run of two bars, one with a trade and one without
C10_Witness ==
    /\ driver = "engine" /\ pc = "done"
    /\ Len(candles) = 2
    /\ Len(trades) = 1
    /\ Len(portfolio.snapshots) = 2

\* the trades of the run stamped with timestamp t
TradesAt(t) == {k \in 1..Len(portfolio.trade_history) : portfolio.trade_history[k].timestamp = t}

\* C11 (as claimed): in a run over candles with distinct timestamps, whatever the
\* signal rows (several may carry one timestamp), at most one trade is applied
\* to the portfolio for each bar, i.e. at most one trade bears its timestamp.
C11_ZeroOrOneTradePerBar ==
    (driver = "engine" /\ pc \in {"loop", "done"} /\ ~HasDuplicates(candles)) =>
        \A i \in 1..Len(candles) : Cardinality(TradesAt(candles[i].timestamp)) <= 1

\* a close that is non-positive or non-finite
BadClose(c) == ~isfinite(c.close) \/ Le(c.close, Zero)

\* C12: a run over candles one of which has a non-positive or non-finite close
\* returns no result: a completed run has only positive finite closes, and the
\* loop never gets past a bar with a bad close, with or without a signal on
\* it: it takes no snapshot there and the call ends by raising.
C12_BadCloseAborts ==
    [][/\ pc' = "done" => \A i \in 1..Len(candles') : ~BadClose(candles'[i])
       /\ (pc = "loop" /\ BadClose(candles[idx])) =>
             /\ pc' \in {"loop", "raised"}
             /\ idx' = idx
             /\ portfolio'.snapshots = portfolio.snapshots
       /\ (pc = "loop" /\ BadClose(candles[idx]) /\ row > Len(RowsAt(signals, candles[idx].timestamp)))
             => pc' = "raised"]_vars

\* C12 witness: the run raised at the mark of its second bar, whose close is bad
\* and which has no signal, after a trade on the first bar
C12_Witness ==
    /\ driver = "engine" /\ pc = "raised"
    /\ call.op = "mark_to_market" /\ Raised(call)
    /\ idx = 2 /\ BadClose(candles[2])
    /\ RowsAt(signals, candles[2].timestamp) = <<>>
    /\ Len(portfolio.trade_history) = 1
    /\ Len(portfolio.snapshots) = 1

\* C13: ExecutionEngine(...) with max_position_pct <= 0 or > 1 raises ValueError
\* and nothing else happens; with 0 < max_position_pct <= 1 it returns the
\* engine; so every run is of an engine with 0 < max_position_pct <= 1.
C13_MaxPositionPctValidated ==
    [][/\ pc = "new" =>
             LET m == engine'.max_position_pct IN
             /\ (Le(m, Zero) \/ Gt(m, One)) =>
                   /\ pc' = "raised" /\ error' = "ValueError"
                   /\ portfolio' = portfolio /\ candles' = <<>> /\ trades' = <<>>
             /\ (Gt(m, Zero) /\ Le(m, One)) => (pc' = "ready" /\ error' = "")
       /\ pc' \in {"ready", "loop", "done"} =>
             (Gt(engine'.max_position_pct, Zero) /\ Le(engine'.max_position_pct, One))]_vars

\* C13 witness: ExecutionEngine(max_position_pct=1.5) raised
C13_Witness ==
    /\ driver = "engine" /\ pc = "raised" /\ error = "ValueError"
    /\ call.op = "ExecutionEngine"
    /\ engine.max_position_pct = Rat(3, 2)

\* a percentage or amount the claim wants refused: negative or non-finite
NegativeOrNonFinite(x) == ~isfinite(x) \/ Lt(x, Zero)

\* C14 (as claimed): no engine is constructed, and so no run starts, with a
\* negative or non-finite fee_pct, slippage_pct or min_trade_value.
C14_CostParametersValidated ==
    (driver = "engine" /\ pc \in {"ready", "loop", "done"}) =>
        /\ ~NegativeOrNonFinite(engine.fee_pct)
        /\ ~NegativeOrNonFinite(engine.slippage_pct)
        /\ ~NegativeOrNonFinite(engine.min_trade_value)

\* C15: a run_backtest call made again on an engine with the same candles and
\* signals starts from a fresh Portfolio (the initial balance in cash, flat,
\* no trade, no snapshot) and an empty trade list, whatever the earlier run
\* left; it completes as the earlier run did, and returns the same trade list,
\* the same equity curve and so the same final equity.
C15_RunDeterminism ==
    [][/\ (pc = "done" /\ pc' = "loop") =>
             /\ portfolio' = NewPortfolio(engine.initial_balance)
             /\ trades' = <<>>
             /\ Last(previous') = BacktestResult(portfolio, trades)
       /\ previous' # <<>> => pc' \in {"loop", "done"}
       /\ (previous' # <<>> /\ pc' = "done") =>
             \A k \in 1..Len(previous') :
                /\ trades' = previous'[k].trades
                /\ Last(portfolio'.snapshots).equity = Last(previous'[k].portfolio.snapshots).equity
                /\ BacktestResult(portfolio', trades') = previous'[k]]_vars

\* C15 witness: the second run of an engine completed, the first having traded
\* and left the portfolio with a position open
C15_Witness ==
    /\ driver = "engine" /\ pc = "done"
    /\ Len(previous) = 1
    /\ Len(previous[1].trades) = 1
    /\ Gt(previous[1].portfolio.position.quantity, Zero)
    /\ previous[1].portfolio.cash # engine.initial_balance
    /\ Len(trades) = 1

\* the signal rows of the bar the loop is at
BarRows == RowsAt(signals, candles[idx].timestamp)

\* the bar the loop is at is about to rebalance on a row that asks for the
\* exposure the portfolio already has: 1 while long, 0 while flat
HoldRow ==
    /\ pc = "loop" /\ row <= Len(BarRows)
    /\ \/ BarRows[row].direction = 1 /\ Gt(portfolio.position.quantity, Zero)
       \/ BarRows[row].direction = 0 /\ portfolio.position.quantity = Zero

\* C16: _rebalance on target_direction 1 while long, or 0 while flat, emits no
\* trade and leaves the portfolio as it was; a bar with no signal row at its
\* timestamp goes straight to its mark, which changes nothing of the portfolio
\* but the snapshots (one more, unless the mark raises) and emits no trade.
C16_HoldIsNoOp ==
    [][/\ HoldRow =>
             /\ portfolio' = portfolio
             /\ trades' = trades
             /\ pc' = "loop" /\ row' = row + 1 /\ idx' = idx
             /\ call'.trade = NoTrade /\ call'.outcome = OK
       /\ (pc = "loop" /\ BarRows = <<>>) =>
             /\ trades' = trades
             /\ [portfolio' EXCEPT !.snapshots = portfolio.snapshots] = portfolio
             /\ call'.op = "mark_to_market"
             /\ pc' # "raised" =>
                   portfolio'.snapshots =
                       Append(portfolio.snapshots,
                              Snapshot(portfolio, candles[idx].timestamp, candles[idx].close))]_vars

\* C16 witness: a row with direction 1 was rebalanced on while long, with cash
\* enough for another trade, and nothing was traded
C16_Witness ==
    /\ driver = "engine" /\ pc = "loop"
    /\ row >= 2 /\ row - 1 <= Len(BarRows)
    /\ BarRows[row - 1].direction = 1
    /\ call.op = "_rebalance" /\ call.outcome = OK /\ call.trade = NoTrade
    /\ Gt(portfolio.position.quantity, Zero)
    /\ Gt(portfolio.cash, Zero)
    /\ ~Lt(Mul(portfolio.cash, engine.max_position_pct), engine.min_trade_value)

\* the Position the caller drives, stand-alone or the Portfolio's
ThePosition == IF driver = "position" THEN position ELSE portfolio.position

\* C17: from the flat Position, after any apply_trade calls, accepted or
\* rejected, quantity = 0 implies average_price = 0; an accepted SELL whose
\* residual quantity is <= 1e-9 leaves quantity exactly 0 and average_price 0.
C17_FlatHasNoAverage ==
    [][/\ (ThePosition'.quantity = Zero => ThePosition'.average_price = Zero)
       /\ (/\ call'.op \in {"apply_trade", "process_trade"}
           /\ call'.outcome = OK
           /\ call'.trade.side = SELL
           /\ Le(Sub(ThePosition.quantity, call'.trade.quantity), EPS))
              => ThePosition' = [quantity |-> Zero, average_price |-> Zero]]_vars

\* C17 witness: a SELL of less than the holding left a residual within the
\* tolerance, and the position is flat with no average price
C17_Witness ==
    /\ driver = "portfolio"
    /\ call.op = "process_trade" /\ call.outcome = OK /\ call.trade.side = SELL
    /\ Len(portfolio.trade_history) = 2
    /\ portfolio.trade_history[1].side = BUY
    /\ Gt(portfolio.trade_history[1].quantity, call.trade.quantity)
    /\ Gt(execution_price(portfolio.trade_history[1]), Zero)
    /\ portfolio.position = [quantity |-> Zero, average_price |-> Zero]

\* C18 (as claimed): every row of the equity curve a run returns has, besides
\* the equity, cash, position quantity and unrealised P&L of its bar's snapshot,
\* the snapshot's cumulative realised_pnl and its gross_exposure.
C18_ResultSurface ==
    (driver = "engine" /\ pc = "done") =>
        \A i \in 1..Len(portfolio.snapshots) :
            LET r == BacktestResult(portfolio, trades).equity_curve[i]
                snap == portfolio.snapshots[i]
            IN  /\ r.timestamp = snap.timestamp
                /\ r.equity = snap.equity
                /\ r.cash = snap.cash
                /\ r.position = snap.position_quantity
                /\ r.unrealised_pnl = snap.unrealised_pnl
                /\ "realised_pnl" \in DOMAIN r /\ r.realised_pnl = snap.realised_pnl
                /\ "gross_exposure" \in DOMAIN r /\ r.gross_exposure = snap.gross_exposure

\* the frame given to run_backtest has no close column
LacksClose(cs) == cs # <<>> /\ \A i \in 1..Len(cs) : "close" \notin DOMAIN cs[i]

\* C19 (as claimed): run_backtest on a frame without the close column raises
\* ValueError, no trade having been processed and no snapshot recorded.
C19_MissingCloseRejected ==
    (driver = "engine" /\ LacksClose(candles)) =>
        /\ pc = "raised" /\ error = "ValueError"
        /\ portfolio.trade_history = <<>> /\ portfolio.snapshots = <<>> /\ trades = <<>>

\* the peak of the first i values of a series: one of them, and no less than any
PeakUpTo(series, i) ==
    CHOOSE p \in {series[j] : j \in 1..i} : \A j \in 1..i : Ge(p, series[j])

\* equity[i] / max(equity[0..i]) - 1
DrawdownAt(series, i) == Sub(Div(series[i], PeakUpTo(series, i)), One)

NonDecreasing(series) == \A i \in 1..(Len(series) - 1) : Le(series[i], series[i + 1])

\* the instance of C20: [100, 110, 99, 105] gives 99/110 - 1
C20_Instance ==
    calculate_max_drawdown(<<Num(100), Num(110), Num(99), Num(105)>>)
        = Sub(Div(Num(99), Num(110)), One)

\* C20: for a non-empty equity curve of strictly positive values,
\* _calculate_max_drawdown returns the least of equity[i] / max(equity[0..i]) - 1,
\* which is between -1 and 0, and is 0 exactly when the curve never decreases.
C20_DrawdownBound ==
    (driver = "metrics" /\ metrics.computed /\ \A i \in 1..Len(equity) : Gt(equity[i], Zero)) =>
        LET m == metrics.max_drawdown IN
        /\ C20_Instance
        /\ \E i \in 1..Len(equity) : m = DrawdownAt(equity, i)
        /\ \A i \in 1..Len(equity) : Le(m, DrawdownAt(equity, i))
        /\ Ge(m, Neg(One)) /\ Le(m, Zero)
        /\ m = Zero <=> NonDecreasing(equity)

\* C20 witness: a curve of four positive values that rises, falls below its
\* start and recovers in part; the drawdown is that of the trough
C20_Witness ==
    /\ driver = "metrics" /\ metrics.computed
    /\ equity = <<Num(2), Num(3), Num(1), Num(2)>>
    /\ metrics.max_drawdown = Rat(-2, 3)

\* the P&L of a closed round trip
PairPnl(buy, sell) ==
    Sub(Mul(Sub(execution_price(sell), execution_price(buy)), Min2(buy.quantity, sell.quantity)),
        Add(buy.fee, sell.fee))

\* FIFO pairing of a trade list: `open` holds the positions in the list of the
\* BUYs not yet paired, earliest first; a SELL closes the earliest of them
RECURSIVE FifoPnls(_, _, _)
FifoPnls(list, k, open) ==
    IF k > Len(list) THEN <<>>
    ELSE IF list[k].side = BUY THEN FifoPnls(list, k + 1, Append(open, k))
    ELSE IF open # <<>>
    THEN <<PairPnl(list[Head(open)], list[k])>> \o FifoPnls(list, k + 1, Tail(open))
    ELSE FifoPnls(list, k + 1, open)

\* C21 (as claimed): for every trade list, _round_trip_pnls pairs each BUY with
\* the next SELL after it not already taken by an earlier BUY (FIFO), and gives
\* one P&L, (sell execution price - buy execution price) * min(quantities) -
\* (buy fee + sell fee), for every pair so closed, in the order of the SELLs, and
\* none for a BUY that no SELL closes.
C21_RoundTripPairing ==
    (driver = "metrics" /\ metrics.paired) =>
        metrics.round_trip_pnls = FifoPnls(trades, 1, <<>>)

\* the loop is about to rebalance on a row with direction 1 while flat, on a
\* bar whose close is positive and finite
BuyRow ==
    /\ pc = "loop" /\ row <= Len(BarRows)
    /\ BarRows[row].direction = 1
    /\ portfolio.position.quantity = Zero
    /\ ~BadClose(candles[idx])

\* C22 (as claimed): on target_direction 1 while flat, with desired = cash *
\* max_position_pct: if desired < min_trade_value nothing is traded, nothing is
\* raised and the portfolio is unchanged; otherwise, min_trade_value = 0
\* included, exactly one BUY of desired / price units with fee desired * fee_pct
\* and slippage slippage_pct is applied and the run continues.
C22_BuySizing ==
    [][BuyRow =>
          LET desired == Mul(portfolio.cash, engine.max_position_pct)
              buy == [timestamp |-> candles[idx].timestamp, side |-> BUY,
                      price |-> candles[idx].close,
                      quantity |-> Div(desired, candles[idx].close),
                      fee |-> Mul(desired, engine.fee_pct),
                      slippage |-> engine.slippage_pct]
          IN  IF Lt(desired, engine.min_trade_value)
              THEN portfolio' = portfolio /\ trades' = trades /\ pc' = "loop" /\ error' = ""
              ELSE /\ trades' = Append(trades, buy)
                   /\ portfolio'.trade_history = Append(portfolio.trade_history, buy)
                   /\ pc' = "loop" /\ error' = ""]_vars

\* a trade list alternates BUY, SELL, BUY, ... from a BUY
Alternates(list) ==
    \A k \in 1..Len(list) : list[k].side = IF k % 2 = 1 THEN BUY ELSE SELL

\* C23: in an engine run a BUY is applied only to a flat position, a SELL
\* sells exactly the quantity held and leaves the position flat with no
\* average price; so the trade list alternates BUY, SELL, ... from a BUY, and
\* the BUYs outnumber the SELLs by 0 or 1, the position being open exactly
\* when they do by 1.
C23_NoOverlappingPositions ==
    [][/\ (pc = "loop" /\ portfolio'.trade_history # portfolio.trade_history) =>
             LET t == Last(portfolio'.trade_history) IN
             /\ portfolio'.trade_history = Append(portfolio.trade_history, t)
             /\ t.side = BUY =>
                   /\ portfolio.position = [quantity |-> Zero, average_price |-> Zero]
                   /\ portfolio'.position.quantity = t.quantity
             /\ t.side = SELL =>
                   /\ t.quantity = portfolio.position.quantity
                   /\ portfolio'.position = [quantity |-> Zero, average_price |-> Zero]
       /\ pc' \in {"loop", "done", "raised"} =>
             /\ Alternates(portfolio'.trade_history)
             /\ Alternates(trades')
             /\ (Len(trades') % 2 = 1) <=> Gt(portfolio'.position.quantity, Zero)]_vars

\* C23 witness: a completed run that bought on its first bar and sold on its second
C23_Witness ==
    /\ driver = "engine" /\ pc = "done"
    /\ Len(trades) = 2
    /\ trades[1].side = BUY /\ trades[2].side = SELL
    /\ trades[1].timestamp < trades[2].timestamp
    /\ portfolio.position = [quantity |-> Zero, average_price |-> Zero]

\* C24: mark_to_market leaves cash, position, realised_pnl and trade_history
\* as they were; with a mark price that is not finite or not positive it raises
\* and appends no snapshot, otherwise it appends exactly one.
C24_MarkToMarketIsReadOnly ==
    [][MarkToMarket =>
          LET p == call'.mark_price IN
          /\ portfolio'.cash = portfolio.cash
          /\ portfolio'.position = portfolio.position
          /\ portfolio'.realised_pnl = portfolio.realised_pnl
          /\ portfolio'.trade_history = portfolio.trade_history
          /\ IF p = NaN \/ p.n <= 0
             THEN /\ call'.outcome = "Mark price must be a positive, finite number"
                  /\ portfolio'.snapshots = portfolio.snapshots
             ELSE /\ call'.outcome = OK
                  /\ Len(portfolio'.snapshots) = Len(portfolio.snapshots) + 1
                  /\ SubSeq(portfolio'.snapshots, 1, Len(portfolio.snapshots))
                        = portfolio.snapshots]_vars

\* C24 witness: a rejected NaN mark on a portfolio that holds a position and
\* already has a snapshot
C24_Witness ==
    /\ driver = "portfolio"
    /\ call.op = "mark_to_market" /\ call.mark_price = NaN
    /\ call.outcome = "Mark price must be a positive, finite number"
    /\ Gt(portfolio.position.quantity, Zero)
    /\ Len(portfolio.snapshots) = 1

\* list is list2 with zero or one entries taken off its end
GrowsAtEnd(list, list2) ==
    /\ Len(list2) \in {Len(list), Len(list) + 1}
    /\ \A k \in 1..Len(list) : list2[k] = list[k]

\* C25: over any sequence of process_trade and mark_to_market calls the
\* trade history and the snapshot list only grow at the end, by one entry of
\* one of the two lists per call, and every entry already there stays as it is.
C25_AppendOnlyHistories ==
    [][driver = "portfolio" =>
          /\ GrowsAtEnd(portfolio.trade_history, portfolio'.trade_history)
          /\ GrowsAtEnd(portfolio.snapshots, portfolio'.snapshots)
          /\ Len(portfolio'.trade_history) + Len(portfolio'.snapshots)
                <= Len(portfolio.trade_history) + Len(portfolio.snapshots) + 1
          /\ (call'.op = "process_trade" /\ call'.outcome = OK) =>
                /\ portfolio'.trade_history = Append(portfolio.trade_history, call'.trade)
                /\ portfolio'.snapshots = portfolio.snapshots
          /\ call'.op = "mark_to_market" =>
                portfolio'.trade_history = portfolio.trade_history]_vars

\* C25 witness: two snapshots, the first taken before a trade that changed the
\* cash and the position, the second after it
C25_Witness ==
    /\ driver = "portfolio"
    /\ Len(portfolio.snapshots) = 2 /\ Len(portfolio.trade_history) = 2
    /\ portfolio.snapshots[1].cash # portfolio.snapshots[2].cash
    /\ portfolio.snapshots[1].position_quantity # portfolio.snapshots[2].position_quantity
    /\ portfolio.snapshots[2].cash # portfolio.cash

\* the call just made applied trade t to the position
Applied(t) ==
    /\ call'.op \in {"apply_trade", "process_trade"}
    /\ call'.outcome = OK
    /\ call'.trade = t
    /\ IF driver = "position" THEN applied' = applied + 1
       ELSE Len(portfolio'.trade_history) = Len(portfolio.trade_history) + 1

\* C26: an accepted BUY of q at execution price e with fee f on a position
\* (Q, A) gives quantity Q + q and an average price whose product with Q + q
\* is A*Q + e*q + f, that is (A*Q + (e + f/q)*q) / (Q + q); an accepted SELL
\* that leaves more than 1e-9 gives quantity Q - q and the same average price.
C26_WeightedAverageCost ==
    [][\A t \in TradeArgs :
          (driver \in {"position", "portfolio"} /\ Applied(t)) =>
             LET Q == ThePosition.quantity
                 A == ThePosition.average_price
                 q == t.quantity
                 e == Mul(t.price, IF t.side = BUY THEN Add(One, t.slippage)
                                   ELSE Sub(One, t.slippage))
             IN  /\ t.side = BUY =>
                       /\ ThePosition'.quantity = Add(Q, q)
                       /\ Mul(ThePosition'.average_price, Add(Q, q))
                             = Add(Add(Mul(A, Q), Mul(e, q)), t.fee)
                       /\ ThePosition'.average_price
                             = Div(Add(Mul(A, Q), Mul(Add(e, Div(t.fee, q)), q)), Add(Q, q))
                 /\ (t.side = SELL /\ Gt(Sub(Q, q), EPS)) =>
                       /\ ThePosition'.quantity = Sub(Q, q)
                       /\ ThePosition'.average_price = A]_vars

\* C26 witness: a second BUY, with a fee, on an open position moved the
\* average price to a value strictly between the two unit costs
C26_Witness ==
    /\ driver = "position" /\ applied = 2
    /\ call.op = "apply_trade" /\ call.outcome = OK /\ call.trade.side = BUY
    /\ Gt(call.trade.fee, Zero)
    /\ Gt(position.quantity, call.trade.quantity)
    /\ LET unit_cost == Add(execution_price(call.trade),
                            Div(call.trade.fee, call.trade.quantity))
       IN  Lt(position.average_price, unit_cost) \/ Gt(position.average_price, unit_cost)

\* C27: throughout an engine run and in the result it returns, the engine's
\* trade list is the portfolio's trade_history, entry for entry; either list
\* gains a trade only in a _rebalance call in which process_trade accepted it.
C27_TradeLogConsistency ==
    [][(driver = "engine" /\ pc' \in {"loop", "done", "raised"}) =>
          /\ trades' = portfolio'.trade_history
          /\ pc' = "done" =>
                BacktestResult(portfolio', trades').trades
                   = BacktestResult(portfolio', trades').portfolio.trade_history
          /\ (pc = "loop" /\ (trades' # trades
                              \/ portfolio'.trade_history # portfolio.trade_history)) =>
                /\ call'.op = "_rebalance" /\ call'.outcome = OK
                /\ call'.trade # NoTrade /\ TradeValid(call'.trade)
                /\ ~Raised(process_trade(portfolio, call'.trade))
                /\ trades' = Append(trades, call'.trade)
          /\ (pc = "loop" /\ pc' = "raised") =>
                /\ trades' = trades
                /\ portfolio'.trade_history = portfolio.trade_history]_vars

\* C27 witness: a completed run whose only trade is the BUY of its open
\* position, in both lists, after a bar on which nothing was traded
C27_Witness ==
    /\ driver = "engine" /\ pc = "done"
    /\ Len(candles) = 2
    /\ Len(trades) = 1 /\ trades[1].side = BUY
    /\ trades[1].timestamp = candles[2].timestamp
    /\ portfolio.trade_history = trades
    /\ Gt(portfolio.position.quantity, Zero)

RECURSIVE SumOf(_)
SumOf(list) == IF list = <<>> THEN Zero ELSE Add(Head(list), SumOf(Tail(list)))

SellsOf(list) == {k \in 1..Len(list) : list[k].side = SELL}

\* C28: for the trade list of a completed engine run, the round-trip P&Ls of
\* the analyzer add up to the portfolio's realised_pnl (exactly, in the exact
\* arithmetic of the model) and there is one round trip per SELL.
C28_AnalyzerAgreesWithLedger ==
    (driver = "engine" /\ pc = "done") =>
        LET pnls == round_trip_pnls(BacktestResult(portfolio, trades).trades) IN
        /\ SumOf(pnls) = portfolio.realised_pnl
        /\ Le(RAbs(Sub(SumOf(pnls), portfolio.realised_pnl)), EPS)
        /\ Len(pnls) = Cardinality(SellsOf(trades))

\* C28 witness: a completed run with one round trip, made with fees and
\* slippage, whose P&L is not zero
C28_Witness ==
    /\ driver = "engine" /\ pc = "done"
    /\ Cardinality(SellsOf(trades)) = 1
    /\ Len(round_trip_pnls(trades)) = 1
    /\ Gt(trades[1].fee, Zero) /\ Gt(trades[2].fee, Zero)
    /\ Gt(engine.slippage_pct, Zero)
    /\ portfolio.realised_pnl # Zero
    /\ round_trip_pnls(trades)[1] = portfolio.realised_pnl

\* max_position_pct * (1 + fee_pct + slippage_pct) <= 1
BoundedCostFactor(eng) ==
    Le(Mul(eng.max_position_pct, Add(One, Add(eng.fee_pct, eng.slippage_pct))), One)

\* C29 (as claimed): when max_position_pct * (1 + fee_pct + slippage_pct) <= 1,
\* every BUY the engine builds passes the cash check of process_trade and
\* every SELL its oversell check, so no _rebalance call raises "Insufficient
\* cash to execute buy trade" or "Cannot sell more than current position
\* quantity".
C29_BuysAffordable ==
    (driver \in {"engine", "engine_float"} /\ BoundedCostFactor(engine)
        /\ call.op = "_rebalance") =>
        call.outcome \notin {"Insufficient cash to execute buy trade",
                             "Cannot sell more than current position quantity",
                             "Cannot sell more than the current position quantity"}

=============================================================================
